---- MODULE Spec2Model ----
(***************************************************************************)
(* PDF2Text (src/main.cpp): the Graph Builder (VisitDict, VisitStream,     *)
(* VisitArray, VisitObject and the scalar visitors), PDFObject::indirect,  *)
(* SavePDF, WriteObject and convertData.                                   *)
(*                                                                         *)
(* The source document reader (the CoreGraphics PDF API) is external: the  *)
(* model reveals the source tree to the Builder node by node, and a node   *)
(* that has been revealed answers the same way whenever it is asked again. *)
(***************************************************************************)
EXTENDS Integers, Sequences, FiniteSets, TLC

VARIABLES
    src,         \* the source document as revealed so far: node id -> node
    pc,          \* position of main() in the conversion of one file
    stack,       \* the Builder's call stack: one frame per Visit* activation
    objectList,  \* Context::objectList
    visited,     \* Context::visited: source identity -> index into objectList
    rootObj,     \* main(): rootObj (index into objectList, 0 = not yet set)
    infoObj,     \* main(): infoObj
    out,         \* the bytes inserted into the output stream, one chunk per <<
    start,       \* SavePDF: start
    xref,        \* SavePDF: xref (id -> offset)
    startXref,   \* SavePDF: startXref
    info,        \* the source node CGPDFDocumentGetInfo returns (0 = not asked)
    cvIn,        \* convertData under test: the bytes of its CFData argument
    cvAscii,     \* convertData under test: doASCII
    cvI,         \* convertData under test: i of the for loop
    cvOstr,      \* convertData under test: ostr
    cvOut        \* convertData under test: the ConvData returned

vars == <<src, info, pc, stack, objectList, visited, rootObj, infoObj,
          out, start, xref, startXref, cvIn, cvAscii, cvI, cvOstr, cvOut>>

saveVars == <<out, start, xref, startXref>>
convVars == <<cvIn, cvAscii, cvI, cvOstr, cvOut>>

----------------------------------------------------------------------------
(* Bounds of the model *)

\* the number of parent-child references of the source document
MaxEdges == 3
\* the number of nested Visit* activations the process stack can hold
StackLimit == 8
\* the longest CFData given to convertData on its own
MaxConvLen == 81

----------------------------------------------------------------------------
(* The source reader: the documents it can expose *)

Composite == {"dict", "array", "stream"}

\* A source node: its CGPDFObjectType, its scalar value (name, a sequence of
\* characters; isInt and num, with num in tenths for a real), and for a
\* stream its CGPDFDataFormat and bytes.  kids/closed are the part of the reader's answer about its
\* children that has been asked for so far.
SrcNode(type, name, isInt, num, fmt, data) ==
    [type |-> type, name |-> name, isInt |-> isInt, num |-> num,
     fmt |-> fmt, data |-> data, kids |-> <<>>, closed |-> type \notin Composite]

\* the names the code compares with
Page == <<"P", "a", "g", "e">>
Metadata == <<"M", "e", "t", "a", "d", "a", "t", "a">>

SrcDict == SrcNode("dict", <<>>, TRUE, 0, "Raw", <<>>)
SrcArray == SrcNode("array", <<>>, TRUE, 0, "Raw", <<>>)
SrcName(v) == SrcNode("name", v, TRUE, 0, "Raw", <<>>)
SrcInt(v) == SrcNode("int", <<>>, TRUE, v, "Raw", <<>>)
SrcReal(tenths) == SrcNode("real", <<>>, FALSE, tenths, "Raw", <<>>)
SrcStream(fmt, data) == SrcNode("stream", <<>>, TRUE, 0, fmt, data)

SrcStreams ==
    { SrcStream("Raw", <<>>), SrcStream("JPEGEncoded", <<255>>),
      SrcStream("JPEG2000", <<0, 171>>) }

\* What a document can hold under a key: the kinds of a child met for the
\* first time, and the types of a child that was met before.
Entry(key, fresh, known) == [key |-> key, fresh |-> fresh, known |-> known]

Schema(type) ==
    CASE type = "dict" ->
           { Entry("Type", {SrcName(Page)}, {"name"}),
             Entry("Contents", SrcStreams, {"stream"}),
             Entry("Kids", {SrcDict, SrcArray}, {"dict", "array"}) }
      [] type = "stream" ->
           { Entry("Type", {SrcName(Metadata)}, {"name"}),
             Entry("FunctionType", {SrcInt(4), SrcReal(45)}, {"int", "real"}),
             Entry("Length", {SrcInt(12)}, {"int"}),
             Entry("Filter", {}, {"int", "stream"}),
             Entry("Resources", {SrcDict}, {"dict"}) }
      [] OTHER ->
           { Entry("", {SrcDict, SrcArray, SrcInt(12), SrcStream("Raw", <<>>)},
                   {"dict", "array", "stream", "int", "name"}) }

UsedKeys(s, n) ==
    IF s[n].type = "array" THEN {}
    ELSE { s[n].kids[k].key : k \in 1..Len(s[n].kids) }

RECURSIVE Edges(_)
Edges(s) == IF s = <<>> THEN 0 ELSE Len(s[Len(s)].kids) + Edges(SubSeq(s, 1, Len(s) - 1))

----------------------------------------------------------------------------
(* Object model *)

\* PDFObject and its subclasses: _type, _refCount{1}, _id{0}, the value of
\* the subclass; kids is PDFArray::_value, PDFDictionary::_order/_value, or
\* the PDFStream's _dict.  node is the source node the object was built for.
NewObject(sn, n, kids) ==
    [type |-> IF sn.type \in {"int", "real"} THEN "number" ELSE sn.type,
     refCount |-> 1, id |-> 0,
     name |-> sn.name, isInt |-> sn.isInt, num |-> sn.num,
     fmt |-> sn.fmt, data |-> sn.data,
     kids |-> kids, outputAsText |-> FALSE, node |-> n]

\* PDFObject::inc
inc(list, p) == [list EXCEPT ![p].refCount = @ + 1]

\* PDFArray::addValue / PDFDictionary::addValue
addValue(list, p, key, obj) ==
    [list EXCEPT ![p].kids = Append(@, [key |-> key, ref |-> obj])]

\* ctx.visited.insert( make_pair( id, ptr ) ): no effect when id is present
Insert(map, n, p) ==
    IF n \in DOMAIN map THEN map ELSE map @@ (n :> p)

\* the mutant of indirect: a Stream referenced once is written inline
indirect_NoStream(o) == o.refCount > 1 \/ o.type = "dict"

\* PDFObject::indirect
indirect(o) == o.refCount > 1 \/ o.type = "stream" \/ o.type = "dict"

\* PDFNumber::intValue: (int) of a float truncates (num is in tenths then)
intValue(o) == IF o.isInt THEN o.num ELSE o.num \div 10

\* PDFDictionary::value( key ): the object stored under key, 0 for nullptr
RECURSIVE value(_, _)
value(kids, key) ==
    IF kids = <<>> THEN 0
    ELSE IF Head(kids).key = key THEN Head(kids).ref
    ELSE value(Tail(kids), key)

----------------------------------------------------------------------------
(* Graph Builder *)

\* One activation of VisitDict, VisitArray or VisitStream that is inside its
\* loop over the children: node is the source node, i the number of children
\* done, ptr the object created before the loop (VisitDict, VisitArray),
\* newDict the dictionary VisitStream is filling.  seen is the size of
\* ctx.visited when the activation began.
Frame(n, p, map) ==
    [node |-> n, i |-> 0, ptr |-> p, newDict |-> <<>>,
     seen |-> Cardinality(DOMAIN map)]

\* The state a Visit* function works on: the document s it reads, the call
\* stack and the Context.  ret = TRUE: the call has returned; ret = FALSE: it
\* is in its loop.
Ctx(s, stk, list, map, ret) ==
    [s |-> s, stk |-> stk, list |-> list, map |-> map, ret |-> ret]

\* the mutant of Revisit: the re-encounter does not count as a reference
Revisit_NoInc(c, n) == Ctx(c.s, c.stk, c.list, c.map, TRUE)

\* if ( visit != ctx.visited.end() ) { visit->second->inc(); return; }
Revisit(c, n) == Ctx(c.s, c.stk, inc(c.list, c.map[n]), c.map, TRUE)

\* make_unique<...>(); ctx.visited.insert(...); ctx.objectList.push_back(...)
VisitCreate(c, n, ret) ==
    LET p == Len(c.list) + 1
    IN Ctx(c.s, IF ret THEN c.stk ELSE Append(c.stk, Frame(n, p, c.map)),
           Append(c.list, NewObject(c.s[n], n, <<>>)), Insert(c.map, n, p), ret)

VisitDict(c, n) ==
    IF n \in DOMAIN c.map THEN Revisit(c, n) ELSE VisitCreate(c, n, FALSE)

VisitArray(c, n) ==
    IF n \in DOMAIN c.map THEN Revisit(c, n) ELSE VisitCreate(c, n, FALSE)

\* VisitNull, VisitBoolean, VisitInteger, VisitFloat, VisitName, VisitString
VisitScalar(c, n) ==
    IF n \in DOMAIN c.map THEN Revisit(c, n) ELSE VisitCreate(c, n, TRUE)

\* VisitStream up to its loop: nothing is created or inserted yet
VisitStream(c, n) ==
    IF n \in DOMAIN c.map
    THEN Revisit(c, n)
    ELSE Ctx(c.s, Append(c.stk, Frame(n, 0, c.map)), c.list, c.map, FALSE)

\* VisitStream after its loop: the PDFStream is created, inserted, appended
VisitStreamEnd(c) ==
    LET f == c.stk[Len(c.stk)]
        p == Len(c.list) + 1
    IN Ctx(c.s, c.stk, Append(c.list, NewObject(c.s[f.node], f.node, f.newDict)),
           Insert(c.map, f.node, p), TRUE)

VisitObject(c, n) ==
    IF n \in DOMAIN c.map
    THEN Revisit(c, n)
    ELSE CASE c.s[n].type = "array" -> VisitArray(c, n)
           [] c.s[n].type = "dict" -> VisitDict(c, n)
           [] c.s[n].type = "stream" -> VisitStream(c, n)
           [] OTHER -> VisitScalar(c, n)

\* After VisitObject( value, ctx ) has returned to the activation on top of
\* the stack: found = ctx.visited.find( IDRef( value ) ); addValue( found )
Attach(c, key, child) ==
    LET d == Len(c.stk)
        f == c.stk[d]
        found == c.map[child]
    IN IF f.ptr = 0
       THEN Ctx(c.s, [c.stk EXCEPT ![d].newDict = Append(@, [key |-> key, ref |-> found]),
                              ![d].i = @ + 1],
                c.list, c.map, TRUE)
       ELSE Ctx(c.s, [c.stk EXCEPT ![d].i = @ + 1],
                addValue(c.list, f.ptr, key, found), c.map, TRUE)

Top == stack[Len(stack)]

----------------------------------------------------------------------------
(* What the reader answers when the Builder asks for the next child *)

\* the source with child (key, target) appended to node n; a target one past
\* the revealed nodes is a node of kind k seen for the first time
Reveal(n, key, target, k) ==
    LET s1 == IF target > Len(src) THEN Append(src, k) ELSE src
    IN [s1 EXCEPT ![n].kids = Append(@, [key |-> key, ref |-> target])]

\* the answers possible for child number i+1 of node n: the source after the
\* answer, and the child.  The info dictionary, when the catalog does not
\* lead to it, holds objects of the catalog's tree only.
NextKids(n, i) ==
    IF i < Len(src[n].kids)
    THEN { [s |-> src, kid |-> src[n].kids[i + 1]] }
    ELSE IF src[n].closed \/ Edges(src) >= MaxEdges
    THEN {}
    ELSE UNION { { [s |-> Reveal(n, e.key, t, SrcDict),
                    kid |-> [key |-> e.key, ref |-> t]] :
                      t \in { m \in 1..Len(src) : src[m].type \in e.known } }
                 \cup
                 { [s |-> Reveal(n, e.key, Len(src) + 1, k),
                    kid |-> [key |-> e.key, ref |-> Len(src) + 1]] :
                      k \in IF n = info THEN {} ELSE e.fresh } :
                 e \in { x \in Schema(src[n].type) : x.key \notin UsedKeys(src, n) } }

----------------------------------------------------------------------------
(* The output stream *)

\* One insertion into the std::ostream: characters (txt) or bytes written
\* with s.write (raw, one integer per byte).
Text(t) == [txt |-> t, raw |-> <<>>]
Bytes(b) == [txt |-> "", raw |-> b]

ChunkLen(c) == Len(c.txt) + Len(c.raw)

\* the number of bytes of the first k chunks
RECURSIVE SizeTo(_, _)
SizeTo(chunks, k) ==
    IF k = 0 THEN 0 ELSE ChunkLen(chunks[k]) + SizeTo(chunks, k - 1)

\* s.tellp() of a stream that holds the chunks o
Tellp(o) == SizeTo(o, Len(o))

Digits == <<"0", "1", "2", "3", "4", "5", "6", "7", "8", "9">>

\* operator<< of an integer
RECURSIVE Dec(_)
Dec(n) == IF n < 10 THEN Digits[n + 1] ELSE Dec(n \div 10) \o Digits[(n % 10) + 1]

\* operator<< of a float (the values of the model have one decimal at most)
FloatText(tenths) ==
    IF tenths % 10 = 0 THEN Dec(tenths \div 10)
    ELSE Dec(tenths \div 10) \o "." \o Dec(tenths % 10)

RECURSIVE Fill(_, _)
Fill(t, w) == IF Len(t) >= w THEN t ELSE Fill("0" \o t, w)

\* std::setfill( '0' ) << std::setw( 10 ) << n
Pad10(n) == Fill(Dec(n), 10)

\* make_writable
RECURSIVE make_writable(_)
make_writable(v) ==
    IF v = <<>> THEN ""
    ELSE (IF Head(v) = " " THEN "#20" ELSE Head(v)) \o make_writable(Tail(v))

----------------------------------------------------------------------------
(* convertData *)

\* char c = a >= 10 ? 'A' + a - 10 : '0' + a
HexChar(a) == IF a >= 10 THEN 65 + a - 10 ELSE 48 + a

\* the mutant of LineFull: a line break after 20 source bytes
LineFull_Twenty(i) == (i % 20) = 0

\* if ( ( i % 40 ) == 0 ) after ++i
LineFull(i) == (i % 40) = 0

\* one iteration of the for loop of convertData, entered with i and ostr: the
\* two digits of ptr[i], ++i, and the line break; yields ostr
HexStep(data, i, ostr) ==
    LET a == (data[i + 1] % 256) \div 16
        b == data[i + 1] % 16
    IN ostr \o <<HexChar(a), HexChar(b)>>
            \o (IF LineFull(i + 1) THEN <<10>> ELSE <<>>)

\* ostr after the iterations for the first i source bytes
RECURSIVE HexLoop(_, _)
HexLoop(data, i) ==
    IF i = 0 THEN <<>> ELSE HexStep(data, i - 1, HexLoop(data, i - 1))

\* ConvData: size and data
ConvData(bytes) == [size |-> Len(bytes), data |-> bytes]

convertData(data, doASCII) ==
    IF ~doASCII
    THEN ConvData(data)
    ELSE ConvData(Append(HexLoop(data, Len(data)), 10))

----------------------------------------------------------------------------
(* WriteObject *)

\* bool doASCII of the type_stream case
DoASCII(list, o) ==
    LET type == value(o.kids, "Type")
    IN IF type # 0 /\ list[type].type = "name" /\ list[type].name = Metadata
       THEN FALSE
       ELSE IF o.outputAsText THEN FALSE ELSE TRUE

\* the /Filter line of the type_stream case
FilterLine(o, doASCII) ==
    IF ~doASCII THEN <<>>
    ELSE IF o.fmt = "JPEGEncoded" THEN <<Text("/Filter [/ASCIIHexDecode /DCTDecode]\n")>>
    ELSE IF o.fmt = "JPEG2000" THEN <<Text("/Filter [/ASCIIHexDecode /JPXDecode]\n")>>
    ELSE <<Text("/Filter /ASCIIHexDecode\n")>>

RECURSIVE WriteObject(_, _), WriteArray(_, _), WriteDict(_, _), WriteStreamDict(_, _, _)

\* the loop of the type_array case
WriteArray(list, kids) ==
    IF kids = <<>> THEN <<>>
    ELSE LET o == list[Head(kids).ref]
         IN (IF indirect(o)
             THEN <<Text(Dec(o.id)), Text(" 0 R ")>>
             ELSE WriteObject(list, Head(kids).ref) \o <<Text(" ")>>)
            \o WriteArray(list, Tail(kids))

\* the loop of the type_dict case
WriteDict(list, kids) ==
    IF kids = <<>> THEN <<>>
    ELSE LET o == list[Head(kids).ref]
         IN <<Text("/"), Text(Head(kids).key), Text(" ")>>
            \o (IF indirect(o)
                THEN <<Text(Dec(o.id)), Text(" 0 R\n")>>
                ELSE WriteObject(list, Head(kids).ref) \o <<Text("\n")>>)
            \o WriteDict(list, Tail(kids))

\* the loop of the type_stream case over the stream's dictionary
WriteStreamDict(list, kids, size) ==
    IF kids = <<>> THEN <<>>
    ELSE LET o == list[Head(kids).ref]
             name == Head(kids).key
         IN (IF name = "Filter" THEN <<>>
             ELSE IF name = "Length"
             THEN <<Text("/Length "), Text(Dec(size)), Text("\n")>>
             ELSE <<Text("/"), Text(name), Text(" ")>>
                  \o (IF indirect(o)
                      THEN <<Text(Dec(o.id)), Text(" 0 R\n")>>
                      ELSE WriteObject(list, Head(kids).ref) \o <<Text("\n")>>))
            \o WriteStreamDict(list, Tail(kids), size)

\* WriteObject( s, obj ): the chunks it inserts, obj = list[p]
WriteObject(list, p) ==
    LET obj == list[p]
    IN CASE obj.type = "boolean" ->
              IF obj.isInt THEN <<Text("true ")>> ELSE <<Text("false ")>>
         [] obj.type = "number" ->
              IF obj.isInt THEN <<Text(Dec(intValue(obj)))>>
              ELSE <<Text(FloatText(obj.num))>>
         [] obj.type = "string" ->
              <<Text("("), Bytes(obj.data), Text(")")>>
         [] obj.type = "name" ->
              <<Text("/"), Text(make_writable(obj.name))>>
         [] obj.type = "array" ->
              <<Text("[ ")>> \o WriteArray(list, obj.kids) \o <<Text("]")>>
         [] obj.type = "dict" ->
              <<Text("<<\n")>> \o WriteDict(list, obj.kids) \o <<Text(">>")>>
         [] obj.type = "stream" ->
              LET doASCII == DoASCII(list, obj)
                  convData == convertData(obj.data, doASCII)
              IN <<Text("<<\n")>>
                 \o FilterLine(obj, doASCII)
                 \o WriteStreamDict(list, obj.kids, convData.size)
                 \o <<Text(">>\nstream\n"), Bytes(convData.data), Text("\nendstream")>>
         [] OTHER -> <<Text("null")>>

----------------------------------------------------------------------------
(* SavePDF *)

\* the first loop of SavePDF, from list[k] on with i identifiers given out
RECURSIVE SetIDs(_, _, _)
SetIDs(list, k, i) ==
    IF k > Len(list) THEN list
    ELSE IF indirect(list[k])
    THEN SetIDs([list EXCEPT ![k].id = i + 1], k + 1, i + 1)
    ELSE SetIDs(list, k + 1, i)

\* the second loop of SavePDF ("locate Contents"), from list[k] on
RECURSIVE LocateContents(_, _)
LocateContents(list, k) ==
    IF k > Len(list) THEN list
    ELSE LET it == list[k]
             type == value(it.kids, "Type")
             contents == value(it.kids, "Contents")
             ft == value(it.kids, "FunctionType")
         IN IF it.type = "dict"
            THEN IF /\ type # 0 /\ list[type].type = "name" /\ list[type].name = Page
                    /\ contents # 0 /\ list[contents].type = "stream"
                 THEN LocateContents([list EXCEPT ![contents].outputAsText = TRUE], k + 1)
                 ELSE LocateContents(list, k + 1)
            ELSE IF it.type = "stream"
                    /\ ft # 0 /\ list[ft].type = "number" /\ intValue(list[ft]) = 4
            THEN LocateContents([list EXCEPT ![k].outputAsText = TRUE], k + 1)
            ELSE LocateContents(list, k + 1)

\* the version numbers CGPDFDocumentGetVersion returns
Version == [major |-> 1, minor |-> 4]

\* the header lines
Header ==
    <<Text("%PDF-"), Text(Dec(Version.major)), Text("."), Text(Dec(Version.minor)),
      Text("\n"), Text("%..."), Text("\n")>>

\* the mutant of XrefOffset: start is not subtracted
XrefOffset_Absolute(o, st) == Tellp(o)

\* s.tellp() - start
XrefOffset(o, st) == Tellp(o) - st

\* the loop "write all objects and build the xref", from list[k] on: o is
\* the stream, x the xref map
RECURSIVE WriteBody(_, _, _, _, _)
WriteBody(list, k, o, x, st) ==
    IF k > Len(list) THEN [out |-> o, xref |-> x]
    ELSE IF indirect(list[k])
    THEN WriteBody(list, k + 1,
                   o \o <<Text(Dec(list[k].id)), Text(" 0 obj\n")>>
                     \o WriteObject(list, k) \o <<Text("\nendobj\n")>>,
                   Insert(x, list[k].id, XrefOffset(o, st)), st)
    ELSE WriteBody(list, k + 1, o, x, st)

\* xref[i]: operator[] of std::map yields 0 for a key that is missing
XrefAt(x, i) == IF i \in DOMAIN x THEN x[i] ELSE 0

\* for ( i = 1; i < xref.size() + 1; ++i ): the entry lines from i on
RECURSIVE XrefLines(_, _)
XrefLines(x, i) ==
    IF ~(i < Cardinality(DOMAIN x) + 1) THEN <<>>
    ELSE <<Text(Pad10(XrefAt(x, i))), Text(" "), Text("00000 n "), Text("\n")>>
         \o XrefLines(x, i + 1)

\* the "xref" section
XrefTable(x) ==
    <<Text("xref\n"), Text("0 "), Text(Dec(Cardinality(DOMAIN x))), Text("\n"),
      Text("0000000000 00000 n "), Text("\n")>>
    \o XrefLines(x, 1)

\* the "trailer" section
Trailer(x, rootID, infoID, xrefPos) ==
    <<Text("trailer"), Text("\n"),
      Text("<< /Size "), Text(Dec(Cardinality(DOMAIN x))),
      Text(" /Root "), Text(Dec(rootID)),
      Text(" 0 R /Info "), Text(Dec(infoID)), Text(" 0 R>>"), Text("\n"),
      Text("startxref"), Text("\n"), Text(Dec(xrefPos)), Text("\n"),
      Text("%%EOF"), Text("\n")>>

----------------------------------------------------------------------------
(* main(): the Builder is driven once per root *)

\* what the files converted before this one have left in the stream that
\* SavePDF is given
PriorOutput == { <<>>, <<Text("%%EOF"), Text("\n")>> }

Here == Ctx(src, stack, objectList, visited, TRUE)

After(s) == Ctx(s, stack, objectList, visited, TRUE)

SetCtx(c) ==
    /\ stack' = c.stk
    /\ objectList' = c.list
    /\ visited' = c.map

Init ==
    /\ src = <<SrcDict>>
    /\ info = 0
    /\ pc = "catalog"
    /\ stack = <<>>
    /\ objectList = <<>>
    /\ visited = <<>>
    /\ rootObj = 0
    /\ infoObj = 0
    /\ out = <<>>
    /\ start = 0
    /\ xref = <<>>
    /\ startXref = 0
    /\ cvIn = <<>>
    /\ cvAscii = FALSE
    /\ cvI = 0
    /\ cvOstr = <<>>
    /\ cvOut = ConvData(<<>>)

\* auto rootObj = VisitDict( catalog, ctx ): the call
MainVisitCatalog ==
    /\ pc = "catalog"
    /\ SetCtx(VisitDict(Here, 1))
    /\ pc' = "visit_root"
    /\ UNCHANGED <<src, info, rootObj, infoObj, saveVars, convVars>>

\* the loop body of VisitDict, VisitArray, VisitStream: VisitObject( value ),
\* and, when the child needs no loop of its own, the addValue that follows
VisitChild ==
    /\ pc \in {"visit_root", "visit_info"}
    /\ stack # <<>>
    /\ \E a \in NextKids(Top.node, Top.i) :
         LET c == VisitObject(After(a.s), a.kid.ref)
         IN /\ Len(c.stk) <= StackLimit
            /\ src' = a.s
            /\ SetCtx(IF c.ret THEN Attach(c, a.kid.key, a.kid.ref) ELSE c)
    /\ UNCHANGED <<info, pc, rootObj, infoObj, saveVars, convVars>>

\* the recursion has used up the stack of the process
StackOverflow ==
    /\ pc \in {"visit_root", "visit_info"}
    /\ stack # <<>>
    /\ \E a \in NextKids(Top.node, Top.i) :
         /\ Len(VisitObject(After(a.s), a.kid.ref).stk) > StackLimit
         /\ src' = a.s
    /\ pc' = "overflow"
    /\ UNCHANGED <<info, stack, objectList, visited, rootObj, infoObj,
                   saveVars, convVars>>

\* the loop of the activation on top of the stack is over: it returns, and
\* its caller goes on (addValue in a Visit* function, the assignment in main)
VisitReturn ==
    /\ pc \in {"visit_root", "visit_info"}
    /\ stack # <<>>
    /\ Top.i = Len(src[Top.node].kids)
    /\ LET n == Top.node
           done == IF Top.ptr = 0 THEN VisitStreamEnd(Here) ELSE Here
           c == Ctx(src, SubSeq(done.stk, 1, Len(stack) - 1), done.list, done.map, TRUE)
       IN /\ src' = [src EXCEPT ![n].closed = TRUE]
          /\ IF c.stk # <<>>
             THEN LET pf == c.stk[Len(c.stk)]
                      kid == src[pf.node].kids[pf.i + 1]
                  IN /\ SetCtx(Attach(c, kid.key, kid.ref))
                     /\ UNCHANGED <<pc, rootObj, infoObj>>
             ELSE IF pc = "visit_root"
             THEN /\ SetCtx(c)
                  /\ rootObj' = Top.ptr
                  /\ pc' = "info"
                  /\ UNCHANGED infoObj
             ELSE \* ctx.visited.clear() follows the visit of info
                  /\ SetCtx(Ctx(c.s, c.stk, c.list, <<>>, TRUE))
                  /\ infoObj' = Top.ptr
                  /\ pc' = "save"
                  /\ UNCHANGED rootObj
    /\ UNCHANGED <<info, saveVars, convVars>>

\* auto infoObj = VisitDict( info, ctx ): the call, and when info has been
\* visited already its return and ctx.visited.clear()
MainVisitInfo ==
    /\ pc = "info"
    /\ \E n \in 1..(Len(src) + 1) :
         /\ n <= Len(src) => src[n].type = "dict"
         /\ info' = n
         /\ src' = IF n > Len(src) THEN Append(src, SrcDict) ELSE src
         /\ LET c == VisitDict(After(src'), n)
            IN IF c.ret
               THEN /\ SetCtx(Ctx(c.s, c.stk, c.list, <<>>, TRUE))
                    /\ infoObj' = c.map[n]
                    /\ pc' = "save"
               ELSE /\ SetCtx(c)
                    /\ pc' = "visit_info"
                    /\ UNCHANGED infoObj
    /\ UNCHANGED <<rootObj, saveVars, convVars>>

\* SavePDF( std::cout, majorVersion, minorVersion, ctx.objectList, rootObj,
\* infoObj ): the identifiers, the marking of the content streams, the header,
\* the body with the xref map, the xref section and the trailer
SavePDF ==
    /\ pc = "save"
    /\ \E s \in PriorOutput :
         /\ objectList' = LocateContents(SetIDs(objectList, 1, 0), 1)
         /\ start' = Tellp(s)
         /\ \E w \in { WriteBody(objectList', 1, s \o Header, <<>>, start') } :
              /\ xref' = w.xref
              /\ startXref' = Tellp(w.out)
              /\ out' = w.out \o XrefTable(xref')
                              \o Trailer(xref', objectList'[rootObj].id,
                                         objectList'[infoObj].id, startXref' - start')
    /\ pc' = "done"
    /\ UNCHANGED <<src, info, stack, visited, rootObj, infoObj, convVars>>

Next ==
    \/ MainVisitCatalog
    \/ VisitChild
    \/ StackOverflow
    \/ VisitReturn
    \/ MainVisitInfo
    \/ SavePDF

Spec == Init /\ [][Next]_vars

----------------------------------------------------------------------------
(* convertData on its own *)

ConvSeeds == {0, 171}

\* the CFData buffers convertData is given
ConvInputs ==
    { [k \in 1..n |-> (b + 37 * k) % 256] : n \in 0..MaxConvLen, b \in ConvSeeds }

ConvInit ==
    /\ src = <<>>
    /\ info = 0
    /\ pc = "conv"
    /\ stack = <<>>
    /\ objectList = <<>>
    /\ visited = <<>>
    /\ rootObj = 0
    /\ infoObj = 0
    /\ out = <<>>
    /\ start = 0
    /\ xref = <<>>
    /\ startXref = 0
    /\ cvIn \in ConvInputs
    /\ cvAscii \in BOOLEAN
    /\ cvI = 0
    /\ cvOstr = <<>>
    /\ cvOut = ConvData(<<>>)

convIdle == <<src, info, stack, objectList, visited, rootObj, infoObj, saveVars>>

\* convertData: if ( not doASCII ) { ...memcpy...; return cd; }
ConvertRaw ==
    /\ pc = "conv"
    /\ ~cvAscii
    /\ cvOut' = ConvData(cvIn)
    /\ pc' = "conv_done"
    /\ UNCHANGED <<convIdle, cvIn, cvAscii, cvI, cvOstr>>

\* convertData: one iteration of for ( CFIndex i = 0; i < l; )
ConvertStep ==
    /\ pc = "conv"
    /\ cvAscii
    /\ cvI < Len(cvIn)
    /\ cvOstr' = HexStep(cvIn, cvI, cvOstr)
    /\ cvI' = cvI + 1
    /\ UNCHANGED <<convIdle, pc, cvIn, cvAscii, cvOut>>

\* convertData: ostr << "\n" after the loop, and the copy into cd
ConvertEnd ==
    /\ pc = "conv"
    /\ cvAscii
    /\ ~(cvI < Len(cvIn))
    /\ cvOstr' = Append(cvOstr, 10)
    /\ cvOut' = ConvData(cvOstr')
    /\ pc' = "conv_done"
    /\ UNCHANGED <<convIdle, cvIn, cvAscii, cvI>>

ConvNext ==
    \/ ConvertRaw
    \/ ConvertStep
    \/ ConvertEnd

SpecConv == ConvInit /\ [][ConvNext]_vars

----------------------------------------------------------------------------
(* Properties *)

\* The stack limit cuts no visit that would have returned: the recursion
\* that reaches it holds one source node twice with the same ctx.visited, and
\* the second activation repeats the first.
Repeats ==
    \E a, b \in 1..Len(stack) :
        a < b /\ stack[a].node = stack[b].node /\ stack[a].seen = stack[b].seen

OverflowIsUnbounded == pc = "overflow" => Repeats

Nodes == 1..Len(objectList)

\* the rule of the data model for an indirect node
RuleIndirect(o) == o.refCount > 1 \/ o.type \in {"dict", "stream"}

\* K: the number of indirect nodes of the list
K == Cardinality({ p \in Nodes : RuleIndirect(objectList[p]) })

\* Reading the output back
Idx == 1..Len(out)

Find(t) == CHOOSE j \in Idx : out[j].txt = t

\* the chunk at which the block "i 0 obj" begins
IsObjAt(i, j) == j < Len(out) /\ out[j].txt = Dec(i) /\ out[j + 1].txt = " 0 obj\n"

ObjAt(i) == CHOOSE j \in Idx : IsObjAt(i, j)

\* the rendered value of body object i: the chunks between "i 0 obj" and
\* "endobj"
Block(i) ==
    LET j == ObjAt(i)
        e == CHOOSE m \in Idx :
                /\ m > j
                /\ out[m].txt = "\nendobj\n"
                /\ \A q \in (j + 1)..(m - 1) : out[q].txt # "\nendobj\n"
    IN SubSeq(out, j + 2, e - 1)

\* the payload of a rendered stream: what is written between "stream" and
\* "endstream"
Payload(blk) == blk[Len(blk) - 1]

----------------------------------------------------------------------------
\* C1: once the Builder has visited the catalog and the info dictionary,
\* every source node reachable from them (every node the reader has exposed)
\* has exactly one entry of the node list.
C1_OneNodePerSource ==
    pc \in {"save", "done"} =>
        \A n \in 1..Len(src) :
            Cardinality({ p \in Nodes : objectList[p].node = n }) = 1

\* C2: the recursive visit returns for every source graph: it never nests
\* without bound, that is, it never runs a second activation for a source
\* node with the dedup table unchanged since an enclosing activation for the
\* same node began, and it never uses up the stack.
C2_VisitReturns == pc # "overflow" /\ ~Repeats

\* C3: after the identifier pass a node has a non-zero identifier iff its
\* reference count is above 1 or it is a Dictionary or a Stream, and the
\* identifiers are exactly 1..K, increasing in node-list order.
C3_Identifiers ==
    pc = "done" =>
        /\ \A p \in Nodes : (objectList[p].id # 0) <=> RuleIndirect(objectList[p])
        /\ { objectList[p].id : p \in { q \in Nodes : objectList[q].id # 0 } } = 1..K
        /\ \A p, q \in Nodes :
              (p < q /\ objectList[p].id # 0 /\ objectList[q].id # 0)
                  => objectList[p].id < objectList[q].id

\* a finished run with three or more indirect nodes, one of them a scalar or
\* array that is indirect by its reference count alone, and an inline node
C3_Witness ==
    /\ pc = "done"
    /\ K >= 3
    /\ \E p \in Nodes : objectList[p].id # 0
                        /\ objectList[p].type \notin {"dict", "stream"}
    /\ \E p \in Nodes : objectList[p].id = 0

C5_XrefCount ==
    pc = "done" =>
        LET x == Find("xref\n")
            z == Find("<< /Size ")
            lines == { j \in Idx : out[j].txt \in {"0000000000 00000 n ", "00000 n "} }
        IN /\ Cardinality(lines) = K + 1
           /\ out[x + 2].txt = Dec(K + 1)
           /\ out[z + 1].txt = Dec(K + 1)

\* C6: every rendered Stream has a Length entry whose value is the byte
\* count of the payload written between "stream" and "endstream".
C6_StreamLength ==
    pc = "done" =>
        \A p \in { q \in Nodes : objectList[q].type = "stream" } :
            LET blk == Block(objectList[p].id)
            IN \E k \in 1..(Len(blk) - 1) :
                  /\ blk[k].txt = "/Length "
                  /\ blk[k + 1].txt = Dec(ChunkLen(Payload(blk)))

\* the character codes of the uppercase hex digits 0..9, A..F
HexCodes == <<48, 49, 50, 51, 52, 53, 54, 55, 56, 57, 65, 66, 67, 68, 69, 70>>

\* d renders the first n bytes of data as two uppercase hex digits each, in
\* order, with a line break after every w source bytes
Wrapped(d, data, n, w) ==
    /\ \A k \in 0..(n - 1) :
          /\ d[2 * k + (k \div w) + 1] = HexCodes[(data[k + 1] \div 16) + 1]
          /\ d[2 * k + (k \div w) + 2] = HexCodes[(data[k + 1] % 16) + 1]
    /\ \A m \in 1..(n \div w) : d[(2 * w + 1) * m] = 10

\* the whole result for an input of n bytes: the wrapped digits and one
\* trailing line break
Armored(cd, data, w) ==
    LET n == Len(data)
    IN /\ cd.size = Len(cd.data)
       /\ Len(cd.data) = 2 * n + (n \div w) + 1
       /\ Wrapped(cd.data, data, n, w)
       /\ cd.data[Len(cd.data)] = 10

\* C7 as claimed: hex-armoring writes two uppercase hex digits per source
\* byte, a line break after every 40 hex characters (20 source bytes), and
\* one trailing line break.
C7_HexArmor_Every20Bytes ==
    (pc = "conv_done" /\ cvAscii) => Armored(cvOut, cvIn, 20)

\* C7 as amended: hex-armoring writes two uppercase hex digits per source
\* byte, in order, a line break after every 80 hex characters (40 source
\* bytes), and one trailing line break, for every input length; while the
\* loop runs, ostr holds that rendering of the bytes done so far.
C7_HexArmor ==
    /\ (pc = "conv_done" /\ cvAscii) => Armored(cvOut, cvIn, 40)
    /\ (pc = "conv" /\ cvAscii) =>
           /\ Len(cvOstr) = 2 * cvI + (cvI \div 40)
           /\ Wrapped(cvOstr, cvIn, cvI, 40)

\* an armored buffer long enough for two line breaks inside the payload
C7_Witness ==
    /\ pc = "conv_done"
    /\ cvAscii
    /\ Len(cvIn) > 80
    /\ Len(cvOut.data) = 2 * Len(cvIn) + 3

----------------------------------------------------------------------------
StreamNodes == { p \in Nodes : objectList[p].type = "stream" }

\* the dictionary kids has a Type entry that is the Name nm
TypeIsName(kids, nm) ==
    LET t == value(kids, "Type")
    IN t # 0 /\ objectList[t].type = "name" /\ objectList[t].name = nm

\* Stream p is the Contents of a Dictionary node whose Type is the Name Page
PageContents(p) ==
    \E d \in Nodes :
        /\ objectList[d].type = "dict"
        /\ TypeIsName(objectList[d].kids, Page)
        /\ value(objectList[d].kids, "Contents") = p

\* the stream's dictionary has a FunctionType Number equal to 4
FunctionTypeIs4(o) ==
    LET f == value(o.kids, "FunctionType")
    IN /\ f # 0
       /\ objectList[f].type = "number"
       /\ IF objectList[f].isInt THEN objectList[f].num = 4
          ELSE objectList[f].num = 40

FilterFor(fmt) ==
    CASE fmt = "JPEGEncoded" -> "/Filter [/ASCIIHexDecode /DCTDecode]\n"
      [] fmt = "JPEG2000" -> "/Filter [/ASCIIHexDecode /JPXDecode]\n"
      [] OTHER -> "/Filter /ASCIIHexDecode\n"

FilterLines == { FilterFor(f) : f \in {"Raw", "JPEGEncoded", "JPEG2000"} }

\* the positions of a rendered value that hold a Filter entry
FilterEntries(blk) ==
    { k \in 1..Len(blk) :
        \/ blk[k].txt \in FilterLines
        \/ k > 1 /\ blk[k].txt = "Filter" /\ blk[k - 1].txt = "/" }

\* the rendering of Stream p: raw bytes without a Filter when rawCase holds,
\* else the hex-armored bytes behind the Filter of its format
EncodedAs(p, rawCase) ==
    LET o == objectList[p]
        blk == Block(o.id)
    IN IF rawCase
       THEN /\ Payload(blk).raw = o.data
            /\ FilterEntries(blk) = {}
       ELSE /\ Payload(blk).raw = convertData(o.data, TRUE).data
            /\ blk[2].txt = FilterFor(o.fmt)
            /\ FilterEntries(blk) = {2}

\* C8: a Stream is written raw and without Filter iff its Type
\* is the Name Metadata, or it is the Contents of a dictionary whose Type is
\* the Name Page, or its FunctionType is a Number equal to 4; otherwise it
\* is hex-armored with the Filter of its format.
C8_EncodingMode ==
    pc = "done" =>
        \A p \in StreamNodes :
            EncodedAs(p, \/ TypeIsName(objectList[p].kids, Metadata)
                         \/ PageContents(p)
                         \/ FunctionTypeIs4(objectList[p]))

----------------------------------------------------------------------------
\* The object graph the output describes

\* the identifiers that the rendered value blk refers to as "k 0 R", one
\* pair <<position, k>> per reference
RefsIn(blk) ==
    { <<j, k>> \in (1..Len(blk)) \X (1..K) :
        /\ j < Len(blk)
        /\ blk[j].txt = Dec(k)
        /\ blk[j + 1].txt \in {" 0 R ", " 0 R\n"} }

\* the identifiers the trailer gives as Root and Info
TrailerRoot == CHOOSE k \in 1..K : out[Find(" /Root ") + 1].txt = Dec(k)
TrailerInfo == CHOOSE k \in 1..K : out[Find(" 0 R /Info ") + 1].txt = Dec(k)

RECURSIVE ReachFrom(_)
ReachFrom(S) ==
    LET more == S \cup { r[2] : r \in UNION { RefsIn(Block(i)) : i \in S } }
    IN IF more = S THEN S ELSE ReachFrom(more)

\* the body objects a reader reaches from the two roots
Reached == ReachFrom({TrailerRoot, TrailerInfo})

\* the reference count a Builder run over the output derives for object k:
\* one per reference to it from a reached object, one per root visit
Rederived(k) ==
    Cardinality({ <<i, r>> \in Reached \X ((1..Len(out)) \X (1..K)) :
                    r \in RefsIn(Block(i)) /\ r[2] = k })
    + (IF TrailerRoot = k THEN 1 ELSE 0)
    + (IF TrailerInfo = k THEN 1 ELSE 0)

\* C9: rebuilding the graph the output describes from Root and Info and
\* re-deriving the reference counts classifies every node as the original
\* run did: every body object is reached and is indirect again (reference
\* count above 1, or a Dictionary or a Stream); inline values stay inline.
C9_RoundTrip ==
    pc = "done" =>
        \A k \in 1..K :
            /\ k \in Reached
            /\ Rederived(k) > 1 \/ Block(k)[1].txt = "<<\n"

\* C10: an activation of VisitDict, VisitArray or VisitStream that has begun
\* to visit the children of its node has entered the node into the dedup
\* table and appended its object to the node list before.
C10_RegisterBeforeRecurse ==
    \A k \in 1..Len(stack) :
        (stack[k].i > 0 \/ k < Len(stack)) =>
            /\ stack[k].node \in DOMAIN visited
            /\ \E p \in Nodes : objectList[p].node = stack[k].node

----------------------------------------------------------------------------
\* The recursion of WriteObject over the built graph

\* the nodes WriteObject writes as "id 0 R"
IndirectNodes == { p \in Nodes : RuleIndirect(objectList[p]) }

\* the children WriteObject looks at when it renders p: the elements of an
\* array, the values of a dictionary, and of a stream's dictionary all but
\* those under Filter and Length
Rendered(p) ==
    LET o == objectList[p]
    IN { o.kids[k].ref :
           k \in { j \in 1..Len(o.kids) :
                     o.type = "stream" => o.kids[j].key \notin {"Filter", "Length"} } }

\* the children WriteObject( p ) calls itself on: those it does not write
\* as a reference
Descends(p) == Rendered(p) \ IndirectNodes

\* every child of p in the built graph
Children(p) == { objectList[p].kids[k].ref : k \in 1..Len(objectList[p].kids) }

\* the nodes that are not indirect and that a path over such nodes only
\* reaches from the set S
RECURSIVE InlineReach(_)
InlineReach(S) ==
    LET more == S \cup ((UNION { Children(q) : q \in S }) \ IndirectNodes)
    IN IF more = S THEN S ELSE InlineReach(more)

\* the nodes in rendering when WriteObject( p ) has descended any number of
\* levels below p
RECURSIVE Nested(_)
Nested(S) ==
    LET more == S \cup UNION { Descends(q) : q \in S }
    IN IF more = S THEN S ELSE Nested(more)

\* C11: in the graph the Builder hands to SavePDF every reference cycle
\* holds an indirect node (no node that is not indirect reaches itself over
\* nodes that are not indirect), so WriteObject, started on any node, never
\* comes back to a node it is rendering; and SavePDF ends.
C11_WriteObjectReturns ==
    pc \in {"save", "done"} =>
        /\ \A p \in Nodes \ IndirectNodes :
              p \notin InlineReach(Children(p) \ IndirectNodes)
        /\ \A p \in Nodes : \A q \in Nested(Descends(p)) \cup {p} :
              q \notin Nested(Descends(q))

\* a written document whose built graph has a reference cycle over two
\* arrays, one of them indirect and the other rendered inline inside it
C11_Witness ==
    /\ pc = "done"
    /\ \E p \in IndirectNodes :
          /\ objectList[p].type = "array"
          /\ \E q \in Descends(p) :
                /\ objectList[q].type = "array"
                /\ p \in Children(q)

====
